---- MODULE Spec2Model ----
(***************************************************************************)
(* Model of the Synergy Squares game server (src/public/app.js, the        *)
(* server half, lines 311-701): the player directory, the presence map     *)
(* playersOnline, the board (currentLevel, squaresCount, occupied) and the *)
(* handlers of /join, /hold, /release and /board.                          *)
(*                                                                         *)
(* Node runs every handler's parseJsonBody callback to completion on the   *)
(* request's 'end' event, on one thread: a handler reads and writes the    *)
(* game state in one atomic step, and nothing of the game is read while a  *)
(* body is still arriving.  Concurrent requests are therefore handled in   *)
(* the order in which their bodies end, and Next allows every such order:  *)
(* each action is the end of one request's body and the run of its handler.*)
(*                                                                         *)
(* JSON numbers: a squareIndex is a number, not necessarily an integer.    *)
(* A number x is represented by the integer x * Scale, so with Scale = 2   *)
(* the model distinguishes the integers from the half-integers (3 is 1.5). *)
(* Player ids are strings in the program; here they are 1, 2, ...          *)
(*                                                                         *)
(* Request bodies are well-formed: JSON with a non-empty playerId and a    *)
(* numeric squareIndex.  The 400 replies 'Invalid JSON' and 'Missing       *)
(* parameters' return before any game state is read and are left out.      *)
(* The profile fields nickname, country and role are copied and never      *)
(* changed by the game handlers; a player is its id and levelsCompleted.   *)
(*                                                                         *)
(* Spec: callers submit integer square indices, as the shipped page does   *)
(* (the loop index of updateBoard, possibly of a board that has changed    *)
(* since); -1 and 4 are the integers just outside level 1's board.         *)
(* SpecAnyNumber: callers submit any JSON number, 1.5 included.            *)
(* SpecSteps: the hold that completes a level runs statement by statement *)
(* (credit, savePlayers, advance, writeJson), and /leaderboard is read;    *)
(* callers hold the squares 0..3 that the page draws at level 1.           *)
(* SpecClient: the shipped page of one player (its isHolding flag, its     *)
(* listeners and its fetches in flight) beside three other players.        *)
(* /register and /login do not touch the game; the directory is the one    *)
(* loaded at start.                                                        *)
(***************************************************************************)
EXTENDS Integers, FiniteSets, TLC

\* ---------------------------------------------------------------- bounds
\* Registered players in players.json when the server starts.
NumPlayers == 5

\* ------------------------------------------------------------- constants
\* Representation of JSON numbers: x is stored as x * Scale.
Scale == 2

\* player.squareIndex = null (no square held).
null == -1000

InitialLevel == 1

InitialSquares == 4

\* ------------------------------------------------------------ input sets
\* ids stored in players.json
Registered == 1..NumPlayers

\* an id no stored player has
Stranger == NumPlayers + 1

\* no player: the filler of an empty map and of a reply to GET /board
NoId == 0

PlayerIds == Registered \cup {Stranger}

\* squareIndex values callers submit under Spec: -1, 0, 1, 2, 3, 4
SquareInputs == {-Scale, 0, Scale, 2 * Scale, 3 * Scale, 4 * Scale}

\* squareIndex values callers submit under SpecAnyNumber: 1.5 too
NumberInputs == SquareInputs \cup {Scale + 1}

VARIABLES
    currentLevel,   \* let currentLevel
    squaresCount,   \* let squaresCount
    occupied,       \* let occupied: squareIndex -> playerId
    playersOnline,  \* const playersOnline: playerId -> [levelsCompleted, squareIndex]
    players,        \* let players: the directory in memory, id -> levelsCompleted
    playersFile,    \* players.json on disk, id -> levelsCompleted
    resp,           \* the response written by the last handler that ran
    isHolding,      \* the page's let isHolding
    heldSquareIndex, \* the page's let heldSquareIndex
    listeners,      \* the squares of the page that carry a pointerdown listener
    fetches         \* the page's requests that the server has not handled yet

vars == <<currentLevel, squaresCount, occupied, playersOnline, players,
          playersFile, resp, isHolding, heldSquareIndex, listeners, fetches>>

\* the state of the one page that is modelled
page == <<isHolding, heldSquareIndex, listeners, fetches>>

game == <<currentLevel, squaresCount, occupied, playersOnline, players, playersFile>>

\* ----------------------------------------------------------------- disk
\* bug: the directory is not written to players.json
savePlayers_skip(dir) == playersFile

\* savePlayers (lines 341-343): what players.json holds after the write
savePlayers(dir) == dir

\* ------------------------------------------------------------ directory
\* bug: the id is looked up among the online players
getPlayerById_online(id) == id \in DOMAIN players /\ id \in DOMAIN playersOnline

getPlayerById(id) == id \in DOMAIN players

\* ---------------------------------------------------------------- board
getBoardState(lvl, sc, occ, online) ==
    [level |-> lvl,
     squaresCount |-> sc,
     occupied |-> occ,
     players |-> [id \in DOMAIN online |-> online[id].squareIndex]]

holdsSquare(p) == p.squareIndex # null

\* bug: only the headcount is compared, not the number of held squares
checkLevelCompletion_headcount(occ, online, sc) ==
    Cardinality(DOMAIN online) = sc

checkLevelCompletion(occ, online, sc) ==
    /\ Cardinality(DOMAIN occ) = sc
    /\ Cardinality(DOMAIN online) = sc

\* bug: every stored player is credited, holding or not
creditStored_all(dir, online) == [id \in DOMAIN dir |-> dir[id] + 1]

\* bug: the stored counter is decremented
creditStored_minus(dir, online) ==
    [id \in DOMAIN dir |->
        IF id \in DOMAIN online /\ holdsSquare(online[id])
        THEN dir[id] - 1 ELSE dir[id]]

\* completeLevel, the crediting loop (lines 398-406)
creditStored(dir, online) ==
    [id \in DOMAIN dir |->
        IF id \in DOMAIN online /\ holdsSquare(online[id])
        THEN dir[id] + 1 ELSE dir[id]]

\* bug: the copy in the presence map is not credited
creditOnline_none(online) == online

creditOnline(online) ==
    [id \in DOMAIN online |->
        IF holdsSquare(online[id])
        THEN [online[id] EXCEPT !.levelsCompleted = @ + 1]
        ELSE online[id]]

\* bug: the completion empties the presence map
clearSquares_evict(online) == [id \in {} |-> online[id]]

\* completeLevel, lines 411-413
clearSquares(online) ==
    [id \in DOMAIN online |-> [online[id] EXCEPT !.squareIndex = null]]

nextLevel(lvl) == lvl + 1

\* bug: the square count is squared
nextSquaresCount_square(sc) == sc * sc

nextSquaresCount(sc) == sc * 2

EmptyMap == [k \in {} |-> NoId]

\* ------------------------------------------------------------- presence
\* bug: the entry is written even when the player is already online
ensureOnline_reset(online, playerId) ==
    [id \in DOMAIN online \cup {playerId} |->
        IF id = playerId
        THEN [levelsCompleted |-> players[playerId], squareIndex |-> null]
        ELSE online[id]]

ensureOnline(online, playerId) ==
    IF playerId \in DOMAIN online
    THEN online
    ELSE online @@ (playerId :> [levelsCompleted |-> players[playerId],
                                 squareIndex |-> null])

\* ------------------------------------------------------------ responses
\* resp: the request the handler ran for (op, playerId, squareIndex) and
\* the status and JSON body it wrote with writeJson
Reply(op, playerId, squareIndex, status, message, levelCompleted, board) ==
    [op |-> op, playerId |-> playerId, squareIndex |-> squareIndex,
     status |-> status, message |-> message,
     levelCompleted |-> levelCompleted, board |-> board]

NoBoard == getBoardState(0, 0, EmptyMap, EmptyMap)

Fail(op, playerId, squareIndex, status, message) ==
    Reply(op, playerId, squareIndex, status, message, FALSE, NoBoard)

\* ----------------------------------------------------------------- hold
invalidSquare(squareIndex, sc) ==
    squareIndex < 0 \/ squareIndex >= sc * Scale

\* bug: only an under-subscribed lobby is refused
admissionClosed_under(online, sc) == Cardinality(DOMAIN online) < sc

\* bug: holds are refused only above the square count
admissionClosed_over(online, sc) == Cardinality(DOMAIN online) > sc

\* bug: the headcount check is dropped
admissionClosed_never(online, sc) == FALSE

admissionClosed(online, sc) == Cardinality(DOMAIN online) # sc

\* bug: the occupancy check is dropped
isOccupied_never(occ, squareIndex) == FALSE

isOccupied(occ, squareIndex) == squareIndex \in DOMAIN occ

\* bug: the headcount is checked before the square index
holdError_headcountFirst(online, playerId, squareIndex) ==
    IF Cardinality(DOMAIN online) # squaresCount
        THEN "Not enough players to start level"
    ELSE IF squareIndex < 0 \/ squareIndex >= squaresCount * Scale
        THEN "Invalid square index"
    ELSE IF online[playerId].squareIndex # null
        THEN "Player already holds a square"
    ELSE IF squareIndex \in DOMAIN occupied
        THEN "Square already occupied"
    ELSE "ok"

\* the checks of handleHold after ensureOnline, in the order of lines 631-645
holdError(online, playerId, squareIndex) ==
    IF invalidSquare(squareIndex, squaresCount)
        THEN "Invalid square index"
    ELSE IF admissionClosed(online, squaresCount)
        THEN "Not enough players to start level"
    ELSE IF holdsSquare(online[playerId])
        THEN "Player already holds a square"
    ELSE IF isOccupied(occupied, squareIndex)
        THEN "Square already occupied"
    ELSE "ok"

holdStatus(message) == IF message = "Invalid square index" THEN 400 ELSE 403

\* occupied[squareIndex] = player.id
assignSquare(occ, squareIndex, playerId) ==
    [k \in DOMAIN occ \cup {squareIndex} |->
        IF k = squareIndex THEN playerId ELSE occ[k]]

takeSquare(online, playerId, squareIndex) ==
    [online EXCEPT ![playerId].squareIndex = squareIndex]

\* bug: levelCompleted is never set
holdReply_noFlag(playerId, squareIndex, levelCompleted, board) ==
    [op |-> "hold", playerId |-> playerId, squareIndex |-> squareIndex,
     status |-> 200, message |-> "ok", levelCompleted |-> FALSE, board |-> board]

\* writeJson(res, 200, { success: true, board: getBoardState(), levelCompleted })
holdReply(playerId, squareIndex, levelCompleted, board) ==
    Reply("hold", playerId, squareIndex, 200, "ok", levelCompleted, board)

handleHold(playerId, squareIndex) ==
    IF ~getPlayerById(playerId) THEN
        /\ resp' = Fail("hold", playerId, squareIndex, 400, "Unknown player")
        /\ UNCHANGED game
    ELSE
        LET online == ensureOnline(playersOnline, playerId)
            error == holdError(online, playerId, squareIndex)
        IN  IF error # "ok" THEN
                /\ playersOnline' = online
                /\ resp' = Fail("hold", playerId, squareIndex, holdStatus(error), error)
                /\ UNCHANGED <<currentLevel, squaresCount, occupied, players, playersFile>>
            ELSE
                LET occ == assignSquare(occupied, squareIndex, playerId)
                    held == takeSquare(online, playerId, squareIndex)
                IN  IF checkLevelCompletion(occ, held, squaresCount) THEN
                        /\ players' = creditStored(players, held)
                        /\ playersFile' = savePlayers(players')
                        /\ currentLevel' = nextLevel(currentLevel)
                        /\ squaresCount' = nextSquaresCount(squaresCount)
                        /\ occupied' = EmptyMap
                        /\ playersOnline' = clearSquares(creditOnline(held))
                        /\ resp' = holdReply(playerId, squareIndex, TRUE,
                                         getBoardState(currentLevel', squaresCount',
                                                       occupied', playersOnline'))
                    ELSE
                        /\ occupied' = occ
                        /\ playersOnline' = held
                        /\ resp' = holdReply(playerId, squareIndex, FALSE,
                                         getBoardState(currentLevel, squaresCount,
                                                       occ, held))
                        /\ UNCHANGED <<currentLevel, squaresCount, players, playersFile>>

\* -------------------------------------------------------------- release
\* bug: the occupied entry is not deleted
releaseSquare_keep(occ, idx) == occ

releaseSquare(occ, idx) == [k \in DOMAIN occ \ {idx} |-> occ[k]]

\* bug: player.squareIndex is not cleared
dropSquare_keep(online, playerId) == online

\* bug: a release clears every player's square
dropSquare_all(online, playerId) ==
    [id \in DOMAIN online |-> [online[id] EXCEPT !.squareIndex = null]]

dropSquare(online, playerId) == [online EXCEPT ![playerId].squareIndex = null]

handleRelease(playerId) ==
    IF playerId \notin DOMAIN playersOnline THEN
        /\ resp' = Fail("release", playerId, null, 400, "Player not online")
        /\ UNCHANGED game
    ELSE
        LET idx == playersOnline[playerId].squareIndex
        IN  /\ IF idx # null
               THEN /\ occupied' = releaseSquare(occupied, idx)
                    /\ playersOnline' = dropSquare(playersOnline, playerId)
               ELSE UNCHANGED <<occupied, playersOnline>>
            /\ resp' = Reply("release", playerId, null, 200, "ok", FALSE,
                             getBoardState(currentLevel, squaresCount,
                                           occupied', playersOnline'))
            /\ UNCHANGED <<currentLevel, squaresCount, players, playersFile>>

\* ----------------------------------------------------------------- join
\* bug: the player is put online without the directory lookup
handleJoin_noLookup(playerId) ==
    /\ playersOnline' =
          IF playerId \in DOMAIN playersOnline
          THEN playersOnline
          ELSE playersOnline @@ (playerId :> [levelsCompleted |-> 0,
                                              squareIndex |-> null])
    /\ resp' = Reply("join", playerId, null, 200, "ok", FALSE,
                     getBoardState(currentLevel, squaresCount,
                                   occupied, playersOnline'))
    /\ UNCHANGED <<currentLevel, squaresCount, occupied, players, playersFile>>

handleJoin(playerId) ==
    IF ~getPlayerById(playerId) THEN
        /\ resp' = Fail("join", playerId, null, 400, "Unknown player")
        /\ UNCHANGED game
    ELSE
        /\ playersOnline' = ensureOnline(playersOnline, playerId)
        /\ resp' = Reply("join", playerId, null, 200, "ok", FALSE,
                         getBoardState(currentLevel, squaresCount,
                                       occupied, playersOnline'))
        /\ UNCHANGED <<currentLevel, squaresCount, occupied, players, playersFile>>

\* ---------------------------------------------------------------- board
handleBoard ==
    /\ resp' = Reply("board", NoId, null, 200, "ok", FALSE,
                     getBoardState(currentLevel, squaresCount, occupied, playersOnline))
    /\ UNCHANGED game

\* -------------------------------------------------------------- actions
Init ==
    /\ currentLevel = InitialLevel
    /\ squaresCount = InitialSquares
    /\ occupied = EmptyMap
    /\ playersOnline = EmptyMap
    /\ players = [id \in Registered |-> 0]
    /\ playersFile = players
    /\ resp = Fail("none", NoId, null, 0, "")
    /\ isHolding = FALSE
    /\ heldSquareIndex = null
    /\ listeners = {}
    /\ fetches = {}

\* Under Spec, SpecAnyNumber and SpecSteps the callers are arbitrary and
\* the page is left out: its state stays as it starts.
Join ==
    /\ \E playerId \in PlayerIds : handleJoin(playerId)
    /\ UNCHANGED page

Hold ==
    /\ \E playerId \in PlayerIds, squareIndex \in SquareInputs :
          handleHold(playerId, squareIndex)
    /\ UNCHANGED page

Release ==
    /\ \E playerId \in PlayerIds : handleRelease(playerId)
    /\ UNCHANGED page

Board == handleBoard /\ UNCHANGED page

Next == Join \/ Hold \/ Release \/ Board

Spec == Init /\ [][Next]_vars

\* the same server, with callers that submit any JSON number
HoldAnyNumber ==
    /\ \E playerId \in PlayerIds, squareIndex \in NumberInputs :
          handleHold(playerId, squareIndex)
    /\ UNCHANGED page

NextAnyNumber == Join \/ HoldAnyNumber \/ Release \/ Board

SpecAnyNumber == Init /\ [][NextAnyNumber]_vars

\* ---------------------------------------------------------- leaderboard
\* The rows of handleLeaderboard (lines 578-585): one per player of the
\* directory, sorted by levelsCompleted, highest first.  The sort is
\* stable, so players with equal counts keep the order of the directory,
\* which is the order of the ids here.
sortsBefore(dir, a, b) == dir[a] > dir[b] \/ (dir[a] = dir[b] /\ a < b)

rank(dir, id) ==
    1 + Cardinality({other \in DOMAIN dir : sortsBefore(dir, other, id)})

leaderboardRows(dir) ==
    [r \in 1..Cardinality(DOMAIN dir) |->
        LET id == CHOOSE id \in DOMAIN dir : rank(dir, id) = r
        IN  [id |-> id, levelsCompleted |-> dir[id]]]

\* handleLeaderboard without a country filter
handleLeaderboard ==
    /\ resp' = Reply("leaderboard", NoId, null, 200, "ok", FALSE,
                     [players |-> leaderboardRows(players)])
    /\ UNCHANGED game

\* ------------------------------------------------- the steps of a hold
\* SpecSteps runs the hold that completes a level statement by statement:
\* the crediting loop, then savePlayers, then the rest of completeLevel,
\* then writeJson.  While the handler runs, resp holds its request with
\* status 0 (nothing written yet) and the statement it has reached in
\* message; no other handler runs in between.  fs.writeFileSync may throw:
\* the exception leaves the 'end' listener uncaught, the process ends and
\* the caller gets no reply.
At(statement) == resp.op = "hold" /\ resp.status = 0 /\ resp.message = statement

Serving == resp.op = "none" \/ resp.status # 0

completes(playerId, squareIndex) ==
    /\ getPlayerById(playerId)
    /\ LET online == ensureOnline(playersOnline, playerId)
       IN  /\ checkLevelCompletion(
                  assignSquare(occupied, squareIndex, playerId),
                  takeSquare(online, playerId, squareIndex), squaresCount)
           /\ holdError(online, playerId, squareIndex) = "ok"

\* handleHold up to the call of savePlayers: lines 619-653 and 396-406
holdToSavePlayers(playerId, squareIndex) ==
    IF completes(playerId, squareIndex) THEN
        LET online == ensureOnline(playersOnline, playerId)
            held == takeSquare(online, playerId, squareIndex)
        IN  /\ occupied' = assignSquare(occupied, squareIndex, playerId)
            /\ players' = creditStored(players, held)
            /\ playersOnline' = creditOnline(held)
            /\ resp' = Reply("hold", playerId, squareIndex, 0, "savePlayers",
                             FALSE, NoBoard)
            /\ UNCHANGED <<currentLevel, squaresCount, playersFile>>
    ELSE
        handleHold(playerId, squareIndex)

\* completeLevel, lines 407-413: the write returns
savePlayersReturns ==
    /\ At("savePlayers")
    /\ playersFile' = savePlayers(players)
    /\ currentLevel' = nextLevel(currentLevel)
    /\ squaresCount' = nextSquaresCount(squaresCount)
    /\ occupied' = EmptyMap
    /\ playersOnline' = clearSquares(playersOnline)
    /\ resp' = [resp EXCEPT !.message = "writeJson"]
    /\ UNCHANGED <<players, page>>

\* completeLevel, line 407: the write throws
savePlayersThrows ==
    /\ At("savePlayers")
    /\ resp' = Fail("crash", resp.playerId, resp.squareIndex, 0, "")
    /\ UNCHANGED <<game, page>>

\* handleHold, line 655
writeHoldReply ==
    /\ At("writeJson")
    /\ resp' = holdReply(resp.playerId, resp.squareIndex, TRUE,
                         getBoardState(currentLevel, squaresCount,
                                       occupied, playersOnline))
    /\ UNCHANGED <<game, page>>

JoinRequest == Serving /\ Join

\* the squares the page draws at level 1 (updateBoard's loop index)
InitialBoard == {i * Scale : i \in 0..(InitialSquares - 1)}

HoldRequest ==
    /\ Serving
    /\ \E playerId \in PlayerIds, squareIndex \in InitialBoard :
          holdToSavePlayers(playerId, squareIndex)
    /\ UNCHANGED page

ReleaseRequest == Serving /\ Release

BoardRequest == Serving /\ Board

LeaderboardRequest == Serving /\ handleLeaderboard /\ UNCHANGED page

NextSteps ==
    \/ JoinRequest
    \/ HoldRequest
    \/ ReleaseRequest
    \/ BoardRequest
    \/ LeaderboardRequest
    \/ savePlayersReturns
    \/ savePlayersThrows
    \/ writeHoldReply

SpecSteps == Init /\ [][NextSteps]_vars

\* ------------------------------------------------------------- the page
\* SpecClient: the shipped page of one logged-in player beside the other
\* callers.  A fetch is a request on its own: the page's requests in
\* flight are handled by the server in any order.  The reply of a request
\* is rendered in the step that handles it.
currentPlayer == 1

\* fetches the page has in flight at most
MaxInFlight == 2

\* players beside the page's player that take part under SpecClient
NumOthers == 3

holdFetch(i) == [op |-> "hold", squareIndex |-> i]

releaseFetch == [op |-> "release", squareIndex |-> null]

\* updateBoard (lines 177-219): the squares that get a pointerdown
\* listener are the unoccupied ones of a board with as many players as
\* squares
updateBoard(board) ==
    {i * Scale : i \in {k \in 0..(board.squaresCount - 1) :
        /\ k * Scale \notin DOMAIN board.occupied
        /\ Cardinality(DOMAIN board.players) = board.squaresCount}}

\* startGame (lines 128-149): POST /join, and the board of the reply is
\* rendered
startGame ==
    /\ handleJoin(currentPlayer)
    /\ listeners' = updateBoard(resp'.board)
    /\ UNCHANGED <<isHolding, heldSquareIndex, fetches>>

\* fetchBoard (lines 154-161), started by startGame after the join
fetchBoard ==
    /\ currentPlayer \in DOMAIN playersOnline
    /\ handleBoard
    /\ listeners' = updateBoard(resp'.board)
    /\ UNCHANGED <<isHolding, heldSquareIndex, fetches>>

\* the pointerdown listener of square i (lines 189-216), up to the fetch
pointerdown(i) ==
    /\ i \in listeners
    /\ ~isHolding
    /\ holdFetch(i) \notin fetches
    /\ Cardinality(fetches) < MaxInFlight
    /\ isHolding' = TRUE
    /\ heldSquareIndex' = i
    /\ fetches' = fetches \cup {holdFetch(i)}
    /\ UNCHANGED <<game, resp, listeners>>

\* window.onpointerup (lines 221-238), up to the fetch
pointerup ==
    /\ isHolding
    /\ releaseFetch \notin fetches
    /\ Cardinality(fetches) < MaxInFlight
    /\ fetches' = fetches \cup {releaseFetch}
    /\ isHolding' = FALSE
    /\ heldSquareIndex' = null
    /\ UNCHANGED <<game, resp, listeners>>

\* what the page shows after a reply (lines 201-202 and 230-231)
rendered(reply) ==
    IF reply.status = 200 THEN updateBoard(reply.board) ELSE listeners

\* the server handles the page's POST /hold
pageHold ==
    \E fetch \in fetches :
        /\ fetch.op = "hold"
        /\ handleHold(currentPlayer, fetch.squareIndex)
        /\ fetches' = fetches \ {fetch}
        /\ listeners' = rendered(resp')
        /\ UNCHANGED <<isHolding, heldSquareIndex>>

\* the server handles the page's POST /release
pageRelease ==
    /\ releaseFetch \in fetches
    /\ handleRelease(currentPlayer)
    /\ fetches' = fetches \ {releaseFetch}
    /\ listeners' = rendered(resp')
    /\ UNCHANGED <<isHolding, heldSquareIndex>>

\* the other callers: registered players with pages of their own, whose
\* requests arrive in any order
OtherPlayers == {id \in Registered : id # currentPlayer /\ id <= NumOthers + 1}

otherJoin ==
    /\ \E playerId \in OtherPlayers : handleJoin(playerId)
    /\ UNCHANGED page

\* each of them presses one square of its own: player 2 square 1, ...
otherSquare(playerId) == ((playerId - 1) % InitialSquares) * Scale

otherHold ==
    /\ \E playerId \in OtherPlayers :
          handleHold(playerId, otherSquare(playerId))
    /\ UNCHANGED page

otherRelease ==
    /\ \E playerId \in OtherPlayers : handleRelease(playerId)
    /\ UNCHANGED page

Pointerdown == \E i \in InitialBoard : pointerdown(i)

NextClient ==
    \/ startGame
    \/ fetchBoard
    \/ Pointerdown
    \/ pointerup
    \/ pageHold
    \/ pageRelease
    \/ otherJoin
    \/ otherHold
    \/ otherRelease

SpecClient == Init /\ [][NextClient]_vars

\* ===================================================================
\* Properties.  A step is the run of one handler; resp' names the request
\* it ran for and the reply it wrote.
\* ===================================================================

HoldStep == resp'.op = "hold"

ReleaseStep == resp'.op = "release"

Completed == currentLevel' # currentLevel

Holders(online) == {q \in DOMAIN online : online[q].squareIndex # null}

HoldErrors == {"Unknown player", "Invalid square index",
               "Not enough players to start level",
               "Player already holds a square", "Square already occupied"}

\* ---------------------------------------------------------------- C1
\* C1: holds of the same square on the same level exclude each other.  A
\* hold succeeds only when it finds the square unoccupied, and unless it
\* completes the level it leaves the square occupied by its caller; a hold
\* that finds the square occupied fails with one of hold's errors and
\* changes neither the board nor any held square.  So of the holds of one
\* square handled in any order on one level, with no release of it between
\* them, at most one succeeds.
C1_AtMostOneHoldWins ==
    [][HoldStep =>
         LET p == resp'.playerId
             i == resp'.squareIndex
         IN  /\ resp'.status = 200 =>
                   /\ i \notin DOMAIN occupied
                   /\ ~Completed => (i \in DOMAIN occupied' /\ occupied'[i] = p)
             /\ i \in DOMAIN occupied =>
                   /\ resp'.status # 200
                   /\ resp'.message \in HoldErrors
                   /\ UNCHANGED <<currentLevel, squaresCount, occupied>>
                   /\ Holders(playersOnline') = Holders(playersOnline)
                   /\ \A q \in DOMAIN playersOnline :
                         playersOnline'[q] = playersOnline[q]]_vars

\* a hold was refused because another player's hold of the square stands
C1_Witness ==
    /\ resp.op = "hold"
    /\ resp.message = "Square already occupied"
    /\ resp.squareIndex \in DOMAIN occupied
    /\ occupied[resp.squareIndex] # resp.playerId

\* ---------------------------------------------------------------- C2
\* C2: occupied and squareIndex agree in both directions: occupied[k] = p
\* exactly when p is online and p.squareIndex = k.
C2_OccupancyConsistent ==
    /\ \A k \in DOMAIN occupied :
          /\ occupied[k] \in DOMAIN playersOnline
          /\ playersOnline[occupied[k]].squareIndex = k
    /\ \A p \in DOMAIN playersOnline :
          playersOnline[p].squareIndex # null =>
             /\ playersOnline[p].squareIndex \in DOMAIN occupied
             /\ occupied[playersOnline[p].squareIndex] = p

\* after a release, with two squares still held
C2_Witness ==
    /\ resp.op = "release"
    /\ resp.status = 200
    /\ Cardinality(DOMAIN occupied) = 2
    /\ playersOnline[resp.playerId].squareIndex = null

\* ---------------------------------------------------------------- C3
\* C3: the level advances in a step exactly when that step is a successful
\* hold after which, with the new hold applied, the number of held squares
\* and the headcount both equal squaresCount; then every online player
\* holds a square.  No join, release, board read or failed hold advances it.
C3_CompletionIff ==
    [][(Completed \/ squaresCount' # squaresCount) <=>
         /\ HoldStep
         /\ resp'.status = 200
         /\ Cardinality(DOMAIN occupied \cup {resp'.squareIndex}) = squaresCount
         /\ Cardinality(DOMAIN playersOnline \cup {resp'.playerId}) = squaresCount
         /\ Holders(playersOnline) \cup {resp'.playerId}
               = DOMAIN playersOnline \cup {resp'.playerId}]_vars

\* a hold completed level 1
C3_Witness ==
    /\ resp.op = "hold"
    /\ resp.levelCompleted
    /\ currentLevel = InitialLevel + 1

C6_AdmissionClosed ==
    [][(/\ HoldStep
        /\ resp'.playerId \in DOMAIN playersOnline
        /\ resp'.squareIndex >= 0
        /\ resp'.squareIndex < squaresCount * Scale
        /\ Cardinality(DOMAIN playersOnline) # squaresCount) =>
          /\ resp'.status = 403
          /\ resp'.message = "Not enough players to start level"
          /\ UNCHANGED <<occupied, playersOnline, currentLevel, squaresCount>>]_vars

\* refused in an over-subscribed lobby in which squares are still held
C6_Witness ==
    /\ resp.op = "hold"
    /\ resp.message = "Not enough players to start level"
    /\ Cardinality(DOMAIN playersOnline) > squaresCount
    /\ occupied # EmptyMap

\* ---------------------------------------------------------------- C7
IsInteger(x) == x % Scale = 0

IsSquare(x) == IsInteger(x) /\ x >= 0 /\ x < squaresCount * Scale

\* C7: every key of occupied and every held squareIndex is one of the
\* squares 0 .. squaresCount - 1.
C7_HeldSquaresAreSquares ==
    /\ \A k \in DOMAIN occupied : IsSquare(k)
    /\ \A p \in DOMAIN playersOnline :
          playersOnline[p].squareIndex # null => IsSquare(playersOnline[p].squareIndex)

\* ---------------------------------------------------------------- C8
\* the first refusal in the order given, for a hold by p of square i
FirstRefusal(p, i, headcount) ==
    IF i < 0 \/ i >= squaresCount * Scale THEN "Invalid square index"
    ELSE IF headcount # squaresCount
        THEN "Not enough players to start level"
    ELSE IF p \in DOMAIN playersOnline /\ playersOnline[p].squareIndex # null
        THEN "Player already holds a square"
    ELSE IF i \in DOMAIN occupied THEN "Square already occupied"
    ELSE "ok"

\* C8 as claimed: the reply names the first violated precondition in the
\* order not online, invalid square, admission closed, already holding,
\* square taken, all judged on the state the request finds.
C8_OrderFromNotOnline ==
    [][HoldStep =>
         LET p == resp'.playerId
             i == resp'.squareIndex
         IN  IF p \notin DOMAIN playersOnline
             THEN resp'.message \in {"Unknown player", "Player not online"}
             ELSE resp'.message = FirstRefusal(p, i, Cardinality(DOMAIN playersOnline))]_vars

\* C8 as the code has it: an id the directory does not know gets 'Unknown
\* player'; a stored caller is first counted as online, and the reply then
\* names the first violated precondition in the order invalid square,
\* admission closed, already holding, square taken.
C8_OrderFromUnknownPlayer ==
    [][HoldStep =>
         LET p == resp'.playerId
             i == resp'.squareIndex
         IN  IF p \notin DOMAIN players
             THEN resp'.message = "Unknown player"
             ELSE resp'.message =
                     FirstRefusal(p, i, Cardinality(DOMAIN playersOnline \cup {p}))]_vars

\* a player holding a square asked for a square another player holds
C8_Witness ==
    /\ resp.op = "hold"
    /\ resp.message = "Player already holds a square"
    /\ resp.squareIndex \in DOMAIN occupied
    /\ occupied[resp.squareIndex] # resp.playerId

C10_Release ==
    [][(ReleaseStep /\ resp'.playerId \in DOMAIN playersOnline) =>
         LET p == resp'.playerId
             idx == playersOnline[p].squareIndex
         IN  /\ resp'.status = 200
             /\ playersOnline'[p].squareIndex = null
             /\ resp'.board = getBoardState(currentLevel', squaresCount',
                                            occupied', playersOnline')
             /\ UNCHANGED <<currentLevel, squaresCount, players, playersFile>>
             /\ idx # null =>
                   /\ DOMAIN occupied' = DOMAIN occupied \ {idx}
                   /\ \A k \in DOMAIN occupied' : occupied'[k] = occupied[k]
                   /\ DOMAIN playersOnline' = DOMAIN playersOnline
                   /\ \A q \in DOMAIN playersOnline \ {p} :
                         playersOnline'[q] = playersOnline[q]
                   /\ playersOnline'[p].levelsCompleted = playersOnline[p].levelsCompleted
             /\ idx = null => UNCHANGED game]_vars

\* a player of a full lobby released, three squares still held
C10_Witness ==
    /\ resp.op = "release"
    /\ resp.status = 200
    /\ Cardinality(DOMAIN playersOnline) = squaresCount
    /\ Cardinality(DOMAIN occupied) = squaresCount - 1
    /\ playersOnline[resp.playerId].squareIndex = null

\* --------------------------------------------------------------- C11
JoinStep == resp'.op = "join"

\* C11: a join by a player who is already online succeeds and leaves the
\* presence map as it is (one entry for the id, the same squareIndex and
\* levelsCompleted) and the board as it is, also while the player holds a
\* square.
C11_JoinIdempotent ==
    [][(JoinStep /\ resp'.playerId \in DOMAIN playersOnline) =>
          /\ resp'.status = 200
          /\ playersOnline' = playersOnline
          /\ UNCHANGED <<occupied, currentLevel, squaresCount>>
          /\ resp'.board = getBoardState(currentLevel, squaresCount,
                                         occupied, playersOnline)]_vars

\* a player holding a square joined again
C11_Witness ==
    /\ resp.op = "join"
    /\ resp.status = 200
    /\ playersOnline[resp.playerId].squareIndex # null
    /\ occupied[playersOnline[resp.playerId].squareIndex] = resp.playerId

\* --------------------------------------------------------------- C12
\* C12: a join with an id the directory does not know fails with 'Unknown
\* player' and changes neither the presence map, the board nor the
\* directory.
C12_JoinUnknownPlayer ==
    [][(JoinStep /\ resp'.playerId \notin DOMAIN players) =>
          /\ resp'.status = 400
          /\ resp'.message = "Unknown player"
          /\ UNCHANGED game]_vars

\* an unknown id tried to join while others are online
C12_Witness ==
    /\ resp.op = "join"
    /\ resp.playerId \notin DOMAIN players
    /\ resp.message = "Unknown player"
    /\ playersOnline # EmptyMap

\* --------------------------------------------------------------- C13
\* C13: the board starts at level 1 with 4 squares; every step leaves
\* (currentLevel, squaresCount) unchanged or takes (L, N) to (L+1, 2N);
\* so squaresCount = 4 * 2^(currentLevel - 1) in every reachable state and
\* the level never decreases.
C13_BoardStateMachine ==
    /\ currentLevel = 1 /\ squaresCount = 4
    /\ [][\/ UNCHANGED <<currentLevel, squaresCount>>
          \/ /\ currentLevel' = currentLevel + 1
             /\ squaresCount' = 2 * squaresCount]_vars
    /\ [][currentLevel' >= currentLevel]_vars
    /\ [](squaresCount = 4 * 2^(currentLevel - 1))

\* the board after a completion
C13_Witness ==
    /\ currentLevel = 2
    /\ squaresCount = 8
    /\ resp.op = "hold"
    /\ resp.levelCompleted

\* --------------------------------------------------------------- C15
OwnSuccess(q, ops) ==
    /\ resp'.op \in ops
    /\ resp'.playerId = q
    /\ resp'.status = 200

C16_PresenceOnlyGrows ==
    [][DOMAIN playersOnline \subseteq DOMAIN playersOnline']_vars

\* everybody is still online after a completion and a later join
C16_Witness ==
    /\ currentLevel = 2
    /\ Cardinality(DOMAIN playersOnline) = NumPlayers

OverSubscribed == Cardinality(DOMAIN playersOnline) > squaresCount

\* C18: once more players are online than there are squares, this stays
\* so in every later state: no hold succeeds, (currentLevel, squaresCount)
\* does not change, and no player starts holding a square.
C18_OverSubscriptionPermanent ==
    [][OverSubscribed =>
          /\ OverSubscribed'
          /\ UNCHANGED <<currentLevel, squaresCount>>
          /\ ~(HoldStep /\ resp'.status = 200)
          /\ Holders(playersOnline') \subseteq Holders(playersOnline)]_vars

\* a hold was refused on an over-subscribed board on which squares are held
C18_Witness ==
    /\ OverSubscribed
    /\ occupied # EmptyMap
    /\ resp.op = "hold"
    /\ resp.message = "Not enough players to start level"

\* --------------------------------------------------------------- C19
\* C19: whenever a square is held, at least squaresCount players are
\* online; after a completion no square is held.
C19_OccupancyNeedsHeadcount ==
    occupied # EmptyMap => Cardinality(DOMAIN playersOnline) >= squaresCount

\* squares are held while more players are online than there are squares
C19_Witness ==
    /\ occupied # EmptyMap
    /\ Cardinality(DOMAIN playersOnline) = NumPlayers
    /\ resp.op = "board"

CompletionReplyWritten ==
    resp'.levelCompleted /\ resp'.op = "hold" /\ resp'.status = 200

Crashed == resp.op = "crash"

PageAtRest == ~isHolding /\ fetches = {}

\* C21: when the page has pressed and lifted and the server has handled
\* both requests, in whichever order, and no level was completed, the
\* server records the page's player as holding no square, as the page
\* does (isHolding = false).
C21_ServerAgreesWithPage ==
    (/\ PageAtRest
     /\ currentLevel = 1
     /\ currentPlayer \in DOMAIN playersOnline) =>
        /\ playersOnline[currentPlayer].squareIndex = null
        /\ \A k \in DOMAIN occupied : occupied[k] # currentPlayer

====
